---- MODULE Spec2Model ----
(***************************************************************************)
(* Model of precise_lite_runner/runner.py: TriggerDetector, ReadWriteStream,*)
(* Listener.update_vectors and the PreciseRunner start/stop/worker loop.    *)
(*                                                                         *)
(* One set of variables serves these specifications:                       *)
(*   SpecDet       TriggerDetector.update driven by a probability stream    *)
(*   SpecRW        one writer and one reader thread on a ReadWriteStream    *)
(*   SpecChop      a ReadWriteStream with chop_samples set, read(-1) too    *)
(*   SpecListener  Listener.clear / Listener.update_vectors                 *)
(*   SpecParams    the derived properties of ListenerParams                 *)
(*   SpecRunner    PreciseRunner: caller thread and worker thread(s)        *)
(* A specification leaves the variables of the other components at their    *)
(* constructed values.                                                      *)
(***************************************************************************)
EXTENDS Integers, Sequences, FiniteSets, TLC

VARIABLES
    \* configuration, fixed at construction
    chunk_size,        \* Listener.chunk_size / TriggerDetector.chunk_size (bytes)
    trigger_level,     \* TriggerDetector.trigger_level
    sensitivity,       \* TriggerDetector.sensitivity, in hundredths
    chop_samples,      \* ReadWriteStream.chop_samples
    stream_kind,       \* "rws": a ReadWriteStream, "file": a caller-supplied BinaryIO
    mode,              \* environment: "normal" (start only when stopped) or "misuse"
    \* TriggerDetector
    activation,        \* TriggerDetector.activation
    ret,               \* history: value returned by the last update (FALSE before)
    prev_activation,   \* history: activation before the last update
    streak,            \* history: consecutive above-threshold updates since activation = 0
    \* ReadWriteStream / file source
    buffer,            \* ReadWriteStream.buffer
    write_event,       \* ReadWriteStream.write_event (threading.Event flag)
    file_data,         \* bytes left in a caller-supplied file-like source
    \* caller thread (owner of the runner, writer of the stream)
    cpc,               \* position of the caller thread
    c_tmp,             \* value of self.buffer loaded by write()
    c_s,               \* argument s of the write() in progress
    running,           \* PreciseRunner.running
    thread,            \* PreciseRunner.thread (0 is None, else a worker id)
    nstarts,           \* number of start() calls made
    nwrites,           \* number of audio write() calls made
    \* worker / reader threads
    wpc,               \* position of each worker thread
    w_n,               \* read(): local n
    w_chunk,           \* read(): local chunk / _handle_predictions: chunk
    w_tmp,             \* read(): value of self.buffer loaded for the slice
    w_prob,            \* _handle_predictions: prob
    \* Listener
    window_audio,      \* Listener.window_audio
    mfccs,             \* Listener.mfccs
    fed,               \* history: all samples fed since clear()
    last_new,          \* history: frames the vectorizer produced in the last call
    pre_len,           \* history: len(window_audio) at line 82 of the last call
    \* history of the observable events
    written,           \* concatenation of the byte strings passed to write()
    readout,           \* concatenation of the byte strings returned by read()
    log,               \* the most recent events of the workers, in order
    \* ListenerParams under examination
    lp,                \* the sample counts of a ListenerParams
    lp_out,            \* its derived properties, once computed
    \* history of a detector fed on its own
    last_prob,         \* prob of the last update (-1 before the first)
    since_true,        \* updates made after the last True (-1 before one)
    last_gap,          \* when the last update returned True and was not the first
                       \* to do so, the number of updates after the True before it,
                       \* this one included; else 0
    \* history of the read() in progress and of the shutdown
    r_req,             \* the argument n the read() was called with
    entry_buf,         \* self.buffer when the read() was entered
    post_stop          \* for a runner started once: per kind, the worker events
                       \* begun while running is False, until stop() returns

cfgVars == <<chunk_size, trigger_level, sensitivity, chop_samples, stream_kind, mode>>
detVars == <<activation, ret, prev_activation, streak>>
streamVars == <<buffer, write_event, file_data>>
callerVars == <<cpc, c_tmp, c_s, running, thread, nstarts, nwrites>>
workerVars == <<wpc, w_n, w_chunk, w_tmp, w_prob>>
listenerVars == <<window_audio, mfccs, fed, last_new, pre_len>>
histVars == <<written, readout, log>>
paramVars == <<lp, lp_out>>
detHistVars == <<last_prob, since_true, last_gap>>
readHistVars == <<r_req, entry_buf>>
auxVars == <<paramVars, detHistVars, readHistVars, post_stop>>
vars == <<cfgVars, detVars, streamVars, callerVars, workerVars, listenerVars, histVars,
          auxVars>>

(***************************************************************************)
(* Bounds of the model.                                                    *)
(***************************************************************************)
\* trigger_level ranges over 0..MaxTrigger
MaxTrigger == 3
\* number of start() calls the caller makes; worker threads are 1..MaxStarts
MaxStarts == 2
\* number of write() calls a writer makes, and the longest byte string it writes
MaxWrites == 3
MaxWriteLen == 2
\* the longest sample array passed to one update_vectors call, and the most
\* samples fed to a Listener between two clear() calls
MaxChunk == 7
MaxFed == 8
\* number of most recent worker events the event history keeps
LogKeep == 2
\* number of audio chunks the caller of a runner writes to its stream
MaxFeeds == 1
\* the largest hop, window and buffer sample counts of a ListenerParams
MaxHop == 4
MaxWindow == 6
MaxSamples == 12
\* the largest chop_samples, the most bytes a chopping stream is constructed
\* with, and the number of write() calls made on it
MaxChop == 3
MaxHeld == 4
MaxChopWrites == 1

(***************************************************************************)
(* TriggerDetector (runner.py 144-172).  Probabilities and sensitivity are  *)
(* in hundredths, so 1.0 is ProbOne.                                        *)
(***************************************************************************)
ProbOne == 100

Probs == {0, 50, 51, 100}

Sensitivities == {0, 50, 100}

\* chunk sizes: divisors of 8*2048, a non-divisor, and sizes above 8*2048
ChunkSizes == {2048, 4096, 5000, 16384, 20000}

\* prob > 1.0 - self.sensitivity
chunk_activated(prob, sens) == prob > ProbOne - sens

\* seeded fault: the cooldown is half as long
CooldownReset_half(cs) == (-(4 * 2048)) \div cs

\* seeded fault: the quotient is taken first and negated after
CooldownReset_trunc(cs) == -((8 * 2048) \div cs)

\* -(8 * 2048) // self.chunk_size : Python negates first, then floor-divides
CooldownReset(cs) == (-(8 * 2048)) \div cs

\* the quiet span the specification promises after an activation
QuietSpan(cs, tl) == ((8 * 2048) \div cs) + tl

\* seeded fault: the counter also advances, below the threshold, from 0
update_coolfires(act, prob, sens, tl, cs) ==
    IF chunk_activated(prob, sens) \/ act <= 0
    THEN LET a1 == act + 1
             has_activated == a1 > tl
         IN  [activation |-> IF has_activated \/ (chunk_activated(prob, sens) /\ a1 < 0)
                             THEN CooldownReset(cs) ELSE a1,
              ret |-> has_activated]
    ELSE IF act > 0 THEN [activation |-> act - 1, ret |-> FALSE]
    ELSE [activation |-> act, ret |-> FALSE]

\* seeded fault: the decay branch also takes a counter of 0 down
update_decay0(act, prob, sens, tl, cs) ==
    IF chunk_activated(prob, sens) \/ act < 0
    THEN LET a1 == act + 1
             has_activated == a1 > tl
         IN  [activation |-> IF has_activated \/ (chunk_activated(prob, sens) /\ a1 < 0)
                             THEN CooldownReset(cs) ELSE a1,
              ret |-> has_activated]
    ELSE IF act >= 0 THEN [activation |-> act - 1, ret |-> FALSE]
    ELSE [activation |-> act, ret |-> FALSE]

\* seeded fault: the activation test is off by one (>= instead of >)
update_offbyone(act, prob, sens, tl, cs) ==
    IF chunk_activated(prob, sens) \/ act < 0
    THEN LET a1 == act + 1
             has_activated == a1 >= tl
         IN  [activation |-> IF has_activated \/ (chunk_activated(prob, sens) /\ a1 < 0)
                             THEN CooldownReset(cs) ELSE a1,
              ret |-> has_activated]
    ELSE IF act > 0 THEN [activation |-> act - 1, ret |-> FALSE]
    ELSE [activation |-> act, ret |-> FALSE]

\* TriggerDetector.update: the new counter and the value returned
update(act, prob, sens, tl, cs) ==
    IF chunk_activated(prob, sens) \/ act < 0
    THEN LET a1 == act + 1
             has_activated == a1 > tl
         IN  [activation |-> IF has_activated \/ (chunk_activated(prob, sens) /\ a1 < 0)
                             THEN CooldownReset(cs) ELSE a1,
              ret |-> has_activated]
    ELSE IF act > 0 THEN [activation |-> act - 1, ret |-> FALSE]
    ELSE [activation |-> act, ret |-> FALSE]

\* the history variables of the detector after update(prob)
DetectorStep(prob) ==
    LET r == update(activation, prob, sensitivity, trigger_level, chunk_size) IN
    /\ activation' = r.activation
    /\ ret' = r.ret
    /\ prev_activation' = activation
    /\ streak' = IF ~chunk_activated(prob, sensitivity) THEN 0
                 ELSE IF activation = 0 THEN 1
                 ELSE IF streak > 0 /\ streak <= trigger_level THEN streak + 1
                 ELSE 0

\* the history of a detector fed on its own, after update(prob); since_true
\* stops counting past the quiet span
DetHistStep(prob) ==
    LET r == update(activation, prob, sensitivity, trigger_level, chunk_size) IN
    /\ last_prob' = prob
    /\ since_true' = IF r.ret THEN 0
                     ELSE IF since_true < 0 THEN -1
                     ELSE IF since_true > QuietSpan(chunk_size, trigger_level)
                          THEN since_true
                     ELSE since_true + 1
    /\ last_gap' = IF r.ret /\ since_true >= 0 THEN since_true + 1 ELSE 0

\* TriggerDetector.__init__
DetectorInit ==
    /\ activation = 0
    /\ ret = FALSE
    /\ prev_activation = 0
    /\ streak = 0

(***************************************************************************)
(* ListenerParams (params.py), scaled down: the sample counts keep the      *)
(* relations of the defaults (hop < window, buffer not shorter than window).*)
(***************************************************************************)
\* int(sample_rate * window_t + 0.5)
window_samples == 3

\* int(sample_rate * hop_t + 0.5)
hop_samples == 2

\* int(sample_rate * buffer_t + 0.5)
buffer_t_samples == 7

buffer_samples == hop_samples * (buffer_t_samples \div hop_samples)

n_features == 1 + ((buffer_samples - window_samples) \div hop_samples)

n_mfcc == 3

\* one row of np.zeros((params.n_features, params.n_mfcc))
ZeroFrame == [i \in 1..n_mfcc |-> 0]

ZeroMatrix == [i \in 1..n_features |-> ZeroFrame]

\* Listener.__init__ and Listener.clear
ListenerInit ==
    /\ window_audio = <<>>
    /\ mfccs = ZeroMatrix
    /\ fed = <<>>
    /\ last_new = <<>>
    /\ pre_len = 0

\* ListenerParams.buffer_samples (24-27) of the sample counts p, where
\* p.samples is int(sample_rate * buffer_t + 0.5)
params_buffer_samples(p) == p.hop_samples * (p.samples \div p.hop_samples)

\* seeded fault: the leading 1 + is missing
params_n_features_less1(p) ==
    (params_buffer_samples(p) - p.window_samples) \div p.hop_samples

\* ListenerParams.n_features (29-35): 1 + int(floor((buffer_samples -
\* window_samples) / hop_samples)), the floor of a negative quotient included
params_n_features(p) ==
    1 + ((params_buffer_samples(p) - p.window_samples) \div p.hop_samples)

\* the sample counts of the scaled-down parameters above
ScaledParams ==
    [window_samples |-> window_samples, hop_samples |-> hop_samples,
     samples |-> buffer_t_samples]

NotComputed == [done |-> FALSE, buffer_samples |-> 0, n_features |-> 0]

(***************************************************************************)
(* Constructed values of the stream, the threads and the histories.        *)
(***************************************************************************)
Workers == 1..MaxStarts

\* ReadWriteStream.__init__ with s = b''
StreamInit ==
    /\ buffer = <<>>
    /\ write_event = FALSE
    /\ file_data = <<>>

\* PreciseRunner.__init__: no thread, not running
CallerInit ==
    /\ cpc = "idle"
    /\ c_tmp = <<>>
    /\ c_s = <<>>
    /\ running = FALSE
    /\ thread = 0
    /\ nstarts = 0
    /\ nwrites = 0

WorkerInit ==
    /\ wpc = [w \in Workers |-> "unborn"]
    /\ w_n = [w \in Workers |-> 0]
    /\ w_chunk = [w \in Workers |-> <<>>]
    /\ w_tmp = [w \in Workers |-> <<>>]
    /\ w_prob = [w \in Workers |-> 0]

HistInit ==
    /\ written = <<>>
    /\ readout = <<>>
    /\ log = <<>>

NoPostStop == [read |-> 0, on_prediction |-> 0, on_activation |-> 0]

ParamsIdle ==
    /\ lp = ScaledParams
    /\ lp_out = NotComputed

DetHistInit ==
    /\ last_prob = -1
    /\ since_true = -1
    /\ last_gap = 0

ReadHistInit ==
    /\ r_req = 0
    /\ entry_buf = <<>>

AuxInit ==
    /\ ParamsIdle
    /\ DetHistInit
    /\ ReadHistInit
    /\ post_stop = NoPostStop

(***************************************************************************)
(* ReadWriteStream (runner.py 104-141).  read() and write() are sequences   *)
(* of steps: every load and every store of self.buffer, and every call on   *)
(* write_event, is a step of its own, so that another thread can run        *)
(* between any two of them.  The reads pass timeout = None: return_time is  *)
(* 1e10 and the wait does not time out.  A local that is dead after a step  *)
(* (the loaded buffer, the argument s) is emptied by that step.             *)
(***************************************************************************)
\* s[:n] for n >= 0
Take(s, n) == SubSeq(s, 1, IF n < Len(s) THEN n ELSE Len(s))

\* s[n:] for n >= 0
Drop(s, n) == SubSeq(s, n + 1, Len(s))

\* s[-k:] for k >= 0: the last k items, and the whole of s when k = 0
LastOf(s, k) == IF k = 0 \/ k >= Len(s) THEN s ELSE SubSeq(s, Len(s) - k + 1, Len(s))

\* lines 121-123: the buffer after the chop step of read()
Chop(buf, chop) ==
    IF 0 < chop /\ chop < Len(buf) THEN LastOf(buf, Len(buf) % chop) ELSE buf

\* lines 119-123: n = len(buffer) when n is -1, then the chop
ReadEntry(w) ==
    /\ wpc[w] = "read"
    /\ w_n' = [w_n EXCEPT ![w] = IF w_n[w] = -1 THEN Len(buffer) ELSE w_n[w]]
    /\ buffer' = Chop(buffer, chop_samples)
    /\ wpc' = [wpc EXCEPT ![w] = "check"]
    /\ UNCHANGED <<write_event, file_data, w_chunk, w_tmp, w_prob>>

\* line 127: while len(self.buffer) < n
ReadCheck(w) ==
    /\ wpc[w] = "check"
    /\ wpc' = [wpc EXCEPT ![w] = IF Len(buffer) < w_n[w] THEN "clear" ELSE "take"]
    /\ UNCHANGED <<streamVars, w_n, w_chunk, w_tmp, w_prob>>

\* line 128: self.write_event.clear()
ReadClear(w) ==
    /\ wpc[w] = "clear"
    /\ write_event' = FALSE
    /\ wpc' = [wpc EXCEPT ![w] = "wait"]
    /\ UNCHANGED <<buffer, file_data, w_n, w_chunk, w_tmp, w_prob>>

\* line 129: self.write_event.wait(...) returns once the flag is set
ReadWait(w) ==
    /\ wpc[w] = "wait"
    /\ write_event
    /\ wpc' = [wpc EXCEPT ![w] = "check"]
    /\ UNCHANGED <<streamVars, w_n, w_chunk, w_tmp, w_prob>>

\* line 131: chunk = self.buffer[:n]
ReadTake(w) ==
    /\ wpc[w] = "take"
    /\ w_chunk' = [w_chunk EXCEPT ![w] = Take(buffer, w_n[w])]
    /\ wpc' = [wpc EXCEPT ![w] = "load"]
    /\ UNCHANGED <<streamVars, w_n, w_tmp, w_prob>>

\* line 132, right-hand side: the load of self.buffer
ReadLoad(w) ==
    /\ wpc[w] = "load"
    /\ w_tmp' = [w_tmp EXCEPT ![w] = buffer]
    /\ wpc' = [wpc EXCEPT ![w] = "store"]
    /\ UNCHANGED <<streamVars, w_n, w_chunk, w_prob>>

\* line 132, the store: self.buffer = <loaded>[n:]
ReadStore(w) ==
    /\ wpc[w] = "store"
    /\ buffer' = Drop(w_tmp[w], w_n[w])
    /\ w_tmp' = [w_tmp EXCEPT ![w] = <<>>]
    /\ wpc' = [wpc EXCEPT ![w] = "ret"]
    /\ UNCHANGED <<write_event, file_data, w_n, w_chunk, w_prob>>

\* the steps of one read() between its call and its return
ReadSteps(w) ==
    \/ ReadEntry(w)
    \/ ReadCheck(w)
    \/ ReadClear(w)
    \/ ReadWait(w)
    \/ ReadTake(w)
    \/ ReadLoad(w)
    \/ ReadStore(w)

\* line 136, the load of self.buffer for +=
WriteLoad(at, to) ==
    /\ cpc = at
    /\ c_tmp' = buffer
    /\ cpc' = to
    /\ UNCHANGED <<streamVars, c_s, running, thread, nstarts, nwrites>>

\* line 136, the store: self.buffer = <loaded> + s
WriteStore(at, to) ==
    /\ cpc = at
    /\ buffer' = c_tmp \o c_s
    /\ c_tmp' = <<>>
    /\ c_s' = <<>>
    /\ cpc' = to
    /\ UNCHANGED <<write_event, file_data, running, thread, nstarts, nwrites>>

\* line 137: self.write_event.set()
WriteSet(at, to) ==
    /\ cpc = at
    /\ write_event' = TRUE
    /\ cpc' = to
    /\ UNCHANGED <<buffer, file_data, c_tmp, c_s, running, thread, nstarts, nwrites>>

(***************************************************************************)
(* SpecRW: a writer thread calling write(s) and a reader thread (thread 1)  *)
(* calling read(n), chopping disabled.  The bytes written are numbered      *)
(* 1, 2, 3, ... so that a lost or a duplicated byte shows.                  *)
(***************************************************************************)
ReadSizes == {1, 2}

TheReader == CHOOSE w \in Workers : \A v \in Workers : w <= v

InitRW ==
    /\ chunk_size = 2048
    /\ trigger_level = 0
    /\ sensitivity = 50
    /\ chop_samples = -1
    /\ stream_kind = "rws"
    /\ mode = "normal"
    /\ DetectorInit /\ StreamInit /\ CallerInit /\ ListenerInit /\ HistInit /\ AuxInit
    /\ wpc = [w \in Workers |-> IF w = TheReader THEN "idle" ELSE "unborn"]
    /\ w_n = [w \in Workers |-> 0]
    /\ w_chunk = [w \in Workers |-> <<>>]
    /\ w_tmp = [w \in Workers |-> <<>>]
    /\ w_prob = [w \in Workers |-> 0]

\* the writer calls write(s) with the next len bytes
WriterCall ==
    /\ cpc = "idle"
    /\ stream_kind = "rws"
    /\ nwrites < MaxWrites
    /\ \E len \in 1..MaxWriteLen :
          /\ c_s' = [i \in 1..len |-> Len(written) + i]
          /\ written' = written \o [i \in 1..len |-> Len(written) + i]
    /\ nwrites' = nwrites + 1
    /\ cpc' = "w_load"
    /\ UNCHANGED <<cfgVars, auxVars, detVars, streamVars, c_tmp, running, thread, nstarts,
                   workerVars, listenerVars, readout, log>>

WriterLoad ==
    /\ WriteLoad("w_load", "w_store")
    /\ UNCHANGED <<cfgVars, auxVars, detVars, workerVars, listenerVars, histVars>>

WriterStore ==
    /\ WriteStore("w_store", "w_set")
    /\ UNCHANGED <<cfgVars, auxVars, detVars, workerVars, listenerVars, histVars>>

WriterSet ==
    /\ WriteSet("w_set", "idle")
    /\ UNCHANGED <<cfgVars, auxVars, detVars, workerVars, listenerVars, histVars>>

\* the reader calls read(n)
ReaderCall ==
    /\ wpc[TheReader] = "idle"
    /\ \E n \in ReadSizes : w_n' = [w_n EXCEPT ![TheReader] = n]
    /\ wpc' = [wpc EXCEPT ![TheReader] = "read"]
    /\ UNCHANGED <<cfgVars, auxVars, detVars, streamVars, callerVars, w_chunk, w_tmp, w_prob,
                   listenerVars, histVars>>

ReaderStep ==
    /\ ReadSteps(TheReader)
    /\ UNCHANGED <<cfgVars, auxVars, detVars, callerVars, listenerVars, histVars>>

\* line 133: return chunk
ReaderReturn ==
    /\ wpc[TheReader] = "ret"
    /\ readout' = readout \o w_chunk[TheReader]
    /\ wpc' = [wpc EXCEPT ![TheReader] = "idle"]
    /\ UNCHANGED <<cfgVars, auxVars, detVars, streamVars, callerVars, w_n, w_chunk, w_tmp, w_prob,
                   listenerVars, written, log>>

NextRW ==
    \/ WriterCall
    \/ WriterLoad
    \/ WriterStore
    \/ WriterSet
    \/ ReaderCall
    \/ ReaderStep
    \/ ReaderReturn

SpecRW == InitRW /\ [][NextRW]_vars

\* C2: no written byte is lost or duplicated: once no call is in progress,
\* the bytes returned by the reads followed by the buffer are the bytes
\* written, in write order.
C2_NoByteLostOrDuplicated ==
    (cpc = "idle" /\ wpc[TheReader] = "idle") => readout \o buffer = written

\* C3: the reader is never left waiting on a cleared event, with no write in
\* progress to set it, while the buffer holds the n bytes it asked for.
C3_NoLostWakeup ==
    ~(/\ wpc[TheReader] = "wait"
      /\ ~write_event
      /\ cpc = "idle"
      /\ Len(buffer) >= w_n[TheReader])

(***************************************************************************)
(* Listener.update_vectors (runner.py 68-91).                              *)
(*                                                                         *)
(* vectorize_raw is not in this repository's sources; it is modelled as     *)
(* the vectorizer of the specification: one frame per hop-aligned window of *)
(* its input, a frame being determined by the samples of its window (here   *)
(* the frame is the window itself, so that two frames are equal only if     *)
(* their windows are).                                                      *)
(***************************************************************************)
vectorize_raw(audio) ==
    IF Len(audio) < window_samples THEN <<>>
    ELSE [i \in 1..(1 + ((Len(audio) - window_samples) \div hop_samples)) |->
             SubSeq(audio, (i - 1) * hop_samples + 1, (i - 1) * hop_samples + window_samples)]

\* seeded fault: lines 86-87 (the cut to the matrix capacity) are missing
update_vectors_nocut(wa, mf, buffer_audio) ==
    LET wa1 == wa \o buffer_audio IN
    IF Len(wa1) >= window_samples
    THEN LET new_features == vectorize_raw(wa1) IN
         [window_audio |-> Drop(wa1, Len(new_features) * hop_samples),
          mfccs |-> Drop(mf, Len(new_features)) \o new_features,
          new |-> new_features]
    ELSE [window_audio |-> wa1, mfccs |-> mf, new |-> <<>>]

\* seeded fault: the tail is trimmed by the number of frames kept, not produced
update_vectors_trimkept(wa, mf, buffer_audio) ==
    LET wa1 == wa \o buffer_audio IN
    IF Len(wa1) >= window_samples
    THEN LET new_features == vectorize_raw(wa1)
             kept == IF Len(new_features) > Len(mf)
                     THEN LastOf(new_features, Len(mf)) ELSE new_features
         IN  [window_audio |-> Drop(wa1, Len(kept) * hop_samples),
              mfccs |-> Drop(mf, Len(kept)) \o kept,
              new |-> new_features]
    ELSE [window_audio |-> wa1, mfccs |-> mf, new |-> <<>>]

\* seeded fault: the tail keeps the hop of the last frame produced
update_vectors_keephop(wa, mf, buffer_audio) ==
    LET wa1 == wa \o buffer_audio IN
    IF Len(wa1) >= window_samples
    THEN LET new_features == vectorize_raw(wa1)
             kept == IF Len(new_features) > Len(mf)
                     THEN LastOf(new_features, Len(mf)) ELSE new_features
         IN  [window_audio |-> Drop(wa1, (Len(new_features) - 1) * hop_samples),
              mfccs |-> Drop(mf, Len(kept)) \o kept,
              new |-> new_features]
    ELSE [window_audio |-> wa1, mfccs |-> mf, new |-> <<>>]

\* lines 80-91: the listener after update_vectors on the samples buffer_audio;
\* new is what vectorize_raw returned (empty when it was not called)
update_vectors(wa, mf, buffer_audio) ==
    LET wa1 == wa \o buffer_audio IN
    IF Len(wa1) >= window_samples
    THEN LET new_features == vectorize_raw(wa1)
             kept == IF Len(new_features) > Len(mf)
                     THEN LastOf(new_features, Len(mf)) ELSE new_features
         IN  [window_audio |-> Drop(wa1, Len(new_features) * hop_samples),
              mfccs |-> Drop(mf, Len(kept)) \o kept,
              new |-> new_features]
    ELSE [window_audio |-> wa1, mfccs |-> mf, new |-> <<>>]

\* the listener and its histories after update_vectors(buffer_audio)
ListenerStep(buffer_audio) ==
    LET r == update_vectors(window_audio, mfccs, buffer_audio) IN
    /\ window_audio' = r.window_audio
    /\ mfccs' = r.mfccs
    /\ last_new' = r.new
    /\ fed' = fed \o buffer_audio
    /\ pre_len' = Len(window_audio) + Len(buffer_audio)

(***************************************************************************)
(* SpecListener: a Listener fed sample arrays of any length, and cleared.   *)
(***************************************************************************)
Samples == {1, 2}

SampleArrays == UNION {[1..n -> Samples] : n \in 0..MaxChunk}

InitListener ==
    /\ chunk_size = 2048
    /\ trigger_level = 0
    /\ sensitivity = 50
    /\ chop_samples = -1
    /\ stream_kind = "rws"
    /\ mode = "normal"
    /\ DetectorInit /\ StreamInit /\ CallerInit /\ WorkerInit /\ ListenerInit /\ HistInit
    /\ AuxInit

\* listener.update_vectors(stream) with stream an np.ndarray
LUpdateVectors ==
    /\ \E a \in SampleArrays :
          /\ Len(fed) + Len(a) <= MaxFed
          /\ ListenerStep(a)
    /\ UNCHANGED <<cfgVars, auxVars, detVars, streamVars, callerVars, workerVars, histVars>>

\* listener.clear()
LClear ==
    /\ fed # <<>>
    /\ window_audio' = <<>>
    /\ mfccs' = ZeroMatrix
    /\ fed' = <<>>
    /\ last_new' = <<>>
    /\ pre_len' = 0
    /\ UNCHANGED <<cfgVars, auxVars, detVars, streamVars, callerVars, workerVars, histVars>>

NextListener ==
    \/ LUpdateVectors
    \/ LClear

SpecListener == InitListener /\ [][NextListener]_vars

\* C9: mfccs always holds exactly n_features frames; a call that makes the
\* vectorizer yield n_features frames or more leaves exactly the most recent
\* n_features of them.
C9_MatrixSize ==
    /\ Len(mfccs) = n_features
    /\ Len(last_new) >= n_features => mfccs = LastOf(last_new, n_features)

\* a call has produced more frames than the matrix holds
C9_Witness ==
    /\ Len(last_new) > n_features
    /\ Len(mfccs) = n_features

\* C10: the matrix after feeding the samples in any chunks is the matrix
\* after feeding them all at once to a cleared listener.
C10_ChunkingInvariance ==
    mfccs = update_vectors(<<>>, ZeroMatrix, fed).mfccs

\* the samples came in several calls, more than one of which produced frames
C10_Witness ==
    /\ Len(fed) = MaxFed
    /\ Len(last_new) = 1
    /\ \A i \in 1..n_features : mfccs[i] # ZeroFrame
    /\ mfccs = update_vectors(<<>>, ZeroMatrix, fed).mfccs

(***************************************************************************)
(* PreciseRunner (runner.py 175-251) with a stream supplied by the caller.  *)
(*                                                                         *)
(* The caller thread makes the calls start(), stream.write(audio) and       *)
(* stop(), one after the other.  Each start() creates a worker thread       *)
(* running _handle_predictions.  A worker is "unborn" before its start(),   *)
(* "dead" once _handle_predictions has returned and "raised" once an        *)
(* exception has left it.                                                   *)
(*                                                                         *)
(* buffer_to_audio is not in this repository's sources; it is modelled as   *)
(* the decoding the specification gives (little-endian signed 16-bit), and  *)
(* a chunk that is not a whole number of samples raises.  The inference and *)
(* the calibration are external: the probability of a chunk is any value.   *)
(***************************************************************************)
\* an event of worker w: "chunk" (read returned chunk, its probability is
\* prob), "eof" (the listener raised), "on_prediction", "update" (the
\* detector returned ret), "on_activation"
Ev(e, w, c, p, r) == [ev |-> e, w |-> w, chunk |-> c, prob |-> p, ret |-> r]

\* the event history after event e: its last LogKeep events
Logged(e) ==
    LET l == Append(log, e) IN
    IF Len(l) > LogKeep THEN SubSeq(l, Len(l) - LogKeep + 1, Len(l)) ELSE l

Alive(w) == wpc[w] \notin {"unborn", "dead", "raised"}

\* the shutdown history after a worker event of kind k: counted when the
\* event begins while self.running is False, start() having been called once
Counted(k) ==
    IF running \/ nstarts # 1 THEN post_stop ELSE [post_stop EXCEPT ![k] = @ + 1]

\* b'\0' * self.chunk_size
Filler == [i \in 1..chunk_size |-> 0]

buffer_to_audio(chunk) ==
    [i \in 1..(Len(chunk) \div 2) |->
        LET v == chunk[2 * i - 1] + 256 * chunk[2 * i] IN
        IF v >= 32768 THEN v - 65536 ELSE v]

RunnerProbs == {0, 100}

\* start() (213-226): the stream is given, so no device is opened
Start ==
    /\ cpc = "idle"
    /\ nstarts < MaxStarts
    /\ (mode = "misuse" \/ thread = 0)
    /\ nstarts' = nstarts + 1
    /\ running' = TRUE
    /\ thread' = nstarts + 1
    /\ wpc' = [wpc EXCEPT ![nstarts + 1] = "loop"]
    /\ post_stop' = NoPostStop
    /\ UNCHANGED <<cfgVars, paramVars, detHistVars, readHistVars, detVars, streamVars,
                   cpc, c_tmp, c_s, nwrites, w_n, w_chunk, w_tmp, w_prob, listenerVars,
                   histVars>>

\* the caller calls stream.write(audio) with the next chunk_size bytes
FeedCall ==
    /\ cpc = "idle"
    /\ stream_kind = "rws"
    /\ nwrites < MaxFeeds
    /\ c_s' = [i \in 1..chunk_size |-> Len(written) + i]
    /\ written' = written \o [i \in 1..chunk_size |-> Len(written) + i]
    /\ nwrites' = nwrites + 1
    /\ cpc' = "w_load"
    /\ UNCHANGED <<cfgVars, auxVars, detVars, streamVars, c_tmp, running, thread, nstarts,
                   workerVars, listenerVars, readout, log>>

\* stop() (230-233): nothing to do without a thread; else running = False and,
\* for a ReadWriteStream, the call of write(b'\0' * chunk_size)
StopBegin ==
    /\ cpc = "idle"
    /\ IF thread = 0
       THEN UNCHANGED <<running, cpc, c_s, written>>
       ELSE /\ running' = FALSE
            /\ IF stream_kind = "rws"
               THEN /\ c_s' = Filler
                    /\ written' = written \o Filler
                    /\ cpc' = "stop_load"
               ELSE /\ cpc' = "join"
                    /\ UNCHANGED <<c_s, written>>
    /\ UNCHANGED <<cfgVars, auxVars, detVars, streamVars, c_tmp, thread, nstarts, nwrites,
                   workerVars, listenerVars, readout, log>>

StopLoad ==
    /\ WriteLoad("stop_load", "stop_store")
    /\ UNCHANGED <<cfgVars, auxVars, detVars, workerVars, listenerVars, histVars>>

StopStore ==
    /\ WriteStore("stop_store", "stop_set")
    /\ UNCHANGED <<cfgVars, auxVars, detVars, workerVars, listenerVars, histVars>>

StopSet ==
    /\ WriteSet("stop_set", "join")
    /\ UNCHANGED <<cfgVars, auxVars, detVars, workerVars, listenerVars, histVars>>

\* stop() (234-235): self.thread.join() returns once that thread has ended,
\* then self.thread = None; self.pa is None
StopJoin ==
    /\ cpc = "join"
    /\ ~Alive(thread)
    /\ thread' = 0
    /\ cpc' = "idle"
    /\ post_stop' = NoPostStop
    /\ UNCHANGED <<cfgVars, paramVars, detHistVars, readHistVars, detVars, streamVars,
                   c_tmp, c_s, running, nstarts, nwrites, workerVars, listenerVars, histVars>>

\* seeded fault: the loop does not test self.running
WLoop_forever(w) ==
    /\ wpc[w] = "loop"
    /\ wpc' = [wpc EXCEPT ![w] = "read"]
    /\ w_n' = [w_n EXCEPT ![w] = chunk_size]
    /\ UNCHANGED <<cfgVars, auxVars, detVars, streamVars, callerVars, w_chunk, w_tmp, w_prob,
                   listenerVars, histVars>>

\* line 244: while self.running; line 246: the call of self.stream.read
WLoop(w) ==
    /\ wpc[w] = "loop"
    /\ IF running
       THEN /\ wpc' = [wpc EXCEPT ![w] = "read"]
            /\ w_n' = [w_n EXCEPT ![w] = chunk_size]
       ELSE /\ wpc' = [wpc EXCEPT ![w] = "dead"]
            /\ UNCHANGED w_n
    /\ UNCHANGED <<cfgVars, auxVars, detVars, streamVars, callerVars, w_chunk, w_tmp, w_prob,
                   listenerVars, histVars>>

\* line 246 on a ReadWriteStream: a step of read()
WRead(w) ==
    /\ stream_kind = "rws"
    /\ ReadSteps(w)
    /\ post_stop' = IF wpc[w] = "read" THEN Counted("read") ELSE post_stop
    /\ UNCHANGED <<cfgVars, paramVars, detHistVars, readHistVars, detVars, callerVars, listenerVars,
                   histVars>>

\* line 246 on a file-like source: up to n bytes, none at the end of the data
WFileRead(w) ==
    /\ stream_kind = "file"
    /\ wpc[w] = "read"
    /\ w_chunk' = [w_chunk EXCEPT ![w] = Take(file_data, w_n[w])]
    /\ file_data' = Drop(file_data, w_n[w])
    /\ wpc' = [wpc EXCEPT ![w] = "ret"]
    /\ post_stop' = Counted("read")
    /\ UNCHANGED <<cfgVars, paramVars, detHistVars, readHistVars, detVars, buffer, write_event,
                   callerVars, w_n, w_tmp, w_prob, listenerVars, histVars>>

\* line 248: read() has returned chunk; prob = listener.get_prediction(chunk).
\* update_vectors raises EOFError on an empty chunk (76-77), which ends the
\* thread: _handle_predictions catches nothing.
WPredict(w) ==
    /\ wpc[w] = "ret"
    /\ IF Len(w_chunk[w]) = 0 \/ Len(w_chunk[w]) % 2 # 0
       THEN /\ wpc' = [wpc EXCEPT ![w] = "raised"]
            /\ log' = Logged(Ev("eof", w, w_chunk[w], 0, FALSE))
            /\ UNCHANGED <<w_prob, listenerVars>>
       ELSE /\ \E p \in RunnerProbs :
                 /\ w_prob' = [w_prob EXCEPT ![w] = p]
                 /\ log' = Logged(Ev("chunk", w, w_chunk[w], p, FALSE))
            /\ ListenerStep(buffer_to_audio(w_chunk[w]))
            /\ wpc' = [wpc EXCEPT ![w] = "on_prediction"]
    /\ UNCHANGED <<cfgVars, auxVars, detVars, streamVars, callerVars, w_n, w_chunk, w_tmp,
                   written, readout>>

\* line 249: self.on_prediction(prob)
WOnPrediction(w) ==
    /\ wpc[w] = "on_prediction"
    /\ log' = Logged(Ev("on_prediction", w, w_chunk[w], w_prob[w], FALSE))
    /\ wpc' = [wpc EXCEPT ![w] = "update"]
    /\ post_stop' = Counted("on_prediction")
    /\ UNCHANGED <<cfgVars, paramVars, detHistVars, readHistVars, detVars, streamVars, callerVars,
                   w_n, w_chunk, w_tmp, w_prob, listenerVars, written, readout>>

\* seeded fault: on_activation is called whatever detector.update returned
WUpdate_always(w) ==
    /\ wpc[w] = "update"
    /\ DetectorStep(w_prob[w])
    /\ log' = Logged(Ev("update", w, w_chunk[w], w_prob[w], ret'))
    /\ wpc' = [wpc EXCEPT ![w] = "on_activation"]
    /\ UNCHANGED <<cfgVars, auxVars, streamVars, callerVars, w_n, w_chunk, w_tmp, w_prob,
                   listenerVars, written, readout>>

\* line 250: if self.detector.update(prob)
WUpdate(w) ==
    /\ wpc[w] = "update"
    /\ DetectorStep(w_prob[w])
    /\ log' = Logged(Ev("update", w, w_chunk[w], w_prob[w], ret'))
    /\ wpc' = [wpc EXCEPT ![w] = IF ret' THEN "on_activation" ELSE "loop"]
    /\ UNCHANGED <<cfgVars, auxVars, streamVars, callerVars, w_n, w_chunk, w_tmp, w_prob,
                   listenerVars, written, readout>>

\* line 251: self.on_activation()
WOnActivation(w) ==
    /\ wpc[w] = "on_activation"
    /\ log' = Logged(Ev("on_activation", w, w_chunk[w], w_prob[w], TRUE))
    /\ wpc' = [wpc EXCEPT ![w] = "loop"]
    /\ post_stop' = Counted("on_activation")
    /\ UNCHANGED <<cfgVars, paramVars, detHistVars, readHistVars, detVars, streamVars, callerVars,
                   w_n, w_chunk, w_tmp, w_prob, listenerVars, written, readout>>

(***************************************************************************)
(* SpecRunner: the runner used as intended, start() only when stopped.      *)
(* SpecRunnerMisuse: start() may also be called while running.              *)
(***************************************************************************)
\* the bytes of a file-like source: three chunks, then the end of the stream
FileData == <<1, 0, 2, 0, 3, 0>>

InitRunnerCommon ==
    /\ chunk_size = 2      \* one int16 sample per chunk
    /\ trigger_level = 1
    /\ sensitivity = 50
    /\ chop_samples = -1
    /\ DetectorInit /\ CallerInit /\ WorkerInit /\ ListenerInit /\ HistInit /\ AuxInit
    /\ buffer = <<>>
    /\ write_event = FALSE

InitRunner ==
    /\ InitRunnerCommon
    /\ mode = "normal"
    /\ stream_kind \in {"rws", "file"}
    /\ file_data = IF stream_kind = "file" THEN FileData ELSE <<>>

InitRunnerMisuse ==
    /\ InitRunnerCommon
    /\ mode = "misuse"
    /\ stream_kind = "rws"
    /\ file_data = <<>>

NextRunner ==
    \/ Start
    \/ FeedCall
    \/ WriterLoad
    \/ WriterStore
    \/ WriterSet
    \/ StopBegin
    \/ StopLoad
    \/ StopStore
    \/ StopSet
    \/ StopJoin
    \/ \E w \in Workers :
          \/ WLoop(w)
          \/ WRead(w)
          \/ WFileRead(w)
          \/ WPredict(w)
          \/ WOnPrediction(w)
          \/ WUpdate(w)
          \/ WOnActivation(w)

NextRunnerMisuse ==
    \/ Start
    \/ FeedCall
    \/ WriterLoad
    \/ WriterStore
    \/ WriterSet
    \/ StopBegin
    \/ StopLoad
    \/ StopStore
    \/ StopSet
    \/ StopJoin
    \/ \E w \in Workers :
          \/ WLoop(w)
          \/ WRead(w)
          \/ WPredict(w)
          \/ WOnPrediction(w)
          \/ WUpdate(w)
          \/ WOnActivation(w)

SpecRunner == InitRunner /\ [][NextRunner]_vars

SpecRunnerMisuse == InitRunnerMisuse /\ [][NextRunnerMisuse]_vars

(***************************************************************************)
(* SpecDet: a TriggerDetector fed an arbitrary probability stream.          *)
(***************************************************************************)
InitDet ==
    /\ chunk_size \in ChunkSizes
    /\ trigger_level \in 0..MaxTrigger
    /\ sensitivity \in Sensitivities
    /\ chop_samples = -1
    /\ stream_kind = "rws"
    /\ mode = "normal"
    /\ DetectorInit
    /\ StreamInit /\ CallerInit /\ WorkerInit /\ ListenerInit /\ HistInit /\ AuxInit

\* one call detector.update(prob)
DetUpdate ==
    /\ \E prob \in Probs : DetectorStep(prob) /\ DetHistStep(prob)
    /\ UNCHANGED <<cfgVars, paramVars, readHistVars, post_stop, streamVars, callerVars,
                   workerVars, listenerVars, histVars>>

NextDet == DetUpdate

SpecDet == InitDet /\ [][NextDet]_vars

ReadPcs == {"read", "check", "clear", "wait", "take", "load", "store"}

\* C4: after a single start(), stop() does not end up joining a worker that
\* is blocked in write_event.wait() with the event cleared: the caller is in
\* join and writes no more, so that worker would never end and stop() would
\* never return.
C4_StopReturns ==
    (cpc = "join" /\ nstarts = 1) => ~(wpc[thread] = "wait" /\ ~write_event)

\* C5: at most one worker thread of the runner is alive, also when start()
\* is called while running, and none is once stop() has returned.
C5_AtMostOneWorker ==
    /\ Cardinality({w \in Workers : Alive(w)}) <= 1
    /\ (cpc = "idle" /\ thread = 0) => \A w \in Workers : ~Alive(w)

\* C6: when the worker of a start() that follows a stop() is about to begin
\* its first iteration, window_audio is empty and mfccs is all zero frames.
C6_CleanRestart ==
    (/\ nstarts >= 2
     /\ thread # 0
     /\ wpc[thread] = "loop"
     /\ w_chunk[thread] = <<>>)
    => (window_audio = <<>> /\ mfccs = ZeroMatrix)

\* C7: once the runner's worker has ended because the listener raised on an
\* empty chunk, running is False.
C7_EofClearsRunning ==
    \A w \in Workers : (thread = w /\ wpc[w] = "raised") => ~running

\* what may follow event a in the event history
Follows(a, b) ==
    CASE a.ev = "chunk" ->
            b.ev = "on_prediction" /\ b.w = a.w /\ b.chunk = a.chunk /\ b.prob = a.prob
      [] a.ev = "on_prediction" ->
            b.ev = "update" /\ b.w = a.w /\ b.chunk = a.chunk /\ b.prob = a.prob
      [] a.ev = "update" ->
            IF a.ret
            THEN b.ev = "on_activation" /\ b.w = a.w /\ b.chunk = a.chunk
            ELSE b.ev \in {"chunk", "eof"}
      [] a.ev = "on_activation" -> b.ev \in {"chunk", "eof"}
      [] a.ev = "eof" -> b.ev \in {"chunk", "eof"}

\* C8: every chunk read is followed by exactly one on_prediction with its
\* probability, then by on_activation if and only if detector.update returned
\* True, and no read is in progress while a callback of the chunk before is
\* still to come: the events of the workers are in the order of the chunks.
C8_CallbackOrder ==
    /\ \A i \in 1..(Len(log) - 1) : Follows(log[i], log[i + 1])
    /\ (Len(log) >= 1 /\ Len(log) < LogKeep) => log[1].ev \in {"chunk", "eof"}
    /\ \A w \in Workers :
          (wpc[w] \in ReadPcs /\ log # <<>>) =>
              LET e == log[Len(log)] IN
              \/ e.ev \in {"on_activation", "eof"}
              \/ e.ev = "update" /\ ~e.ret

\* an activation was delivered and the next chunk has been read after it
C8_Witness ==
    /\ Len(log) = 2
    /\ log[1].ev = "on_activation"
    /\ log[2].ev = "chunk"

(***************************************************************************)
(* SpecParams: the derived properties of a ListenerParams (params.py 24-43) *)
(* whose sample counts are any integers with sample_rate > 0 and            *)
(* hop_samples > 0.  params.py validates nothing, so every such             *)
(* configuration can be constructed.                                        *)
(***************************************************************************)
InitParams ==
    /\ chunk_size = 2048
    /\ trigger_level = 0
    /\ sensitivity = 50
    /\ chop_samples = -1
    /\ stream_kind = "rws"
    /\ mode = "normal"
    /\ DetectorInit /\ StreamInit /\ CallerInit /\ WorkerInit /\ ListenerInit /\ HistInit
    /\ DetHistInit /\ ReadHistInit
    /\ post_stop = NoPostStop
    /\ lp \in [window_samples : 0..MaxWindow, hop_samples : 1..MaxHop,
                samples : 0..MaxSamples]
    /\ lp_out = NotComputed

\* the properties buffer_samples and n_features are read
ParamsCompute ==
    /\ ~lp_out.done
    /\ lp_out' = [done |-> TRUE,
                  buffer_samples |-> params_buffer_samples(lp),
                  n_features |-> params_n_features(lp)]
    /\ UNCHANGED <<cfgVars, detVars, streamVars, callerVars, workerVars, listenerVars,
                   histVars, lp, detHistVars, readHistVars, post_stop>>

NextParams == ParamsCompute

SpecParams == InitParams /\ [][NextParams]_vars

InitChop ==
    /\ chunk_size = 2048
    /\ trigger_level = 0
    /\ sensitivity = 50
    /\ chop_samples \in {-1} \cup (1..MaxChop)
    /\ stream_kind = "rws"
    /\ mode = "normal"
    /\ DetectorInit /\ CallerInit /\ ListenerInit /\ AuxInit
    /\ \E held \in 0..MaxHeld :
          /\ buffer = [i \in 1..held |-> i]
          /\ written = [i \in 1..held |-> i]
    /\ write_event = FALSE
    /\ file_data = <<>>
    /\ readout = <<>>
    /\ log = <<>>
    /\ wpc = [w \in Workers |-> IF w = TheReader THEN "idle" ELSE "unborn"]
    /\ w_n = [w \in Workers |-> 0]
    /\ w_chunk = [w \in Workers |-> <<>>]
    /\ w_tmp = [w \in Workers |-> <<>>]
    /\ w_prob = [w \in Workers |-> 0]

\* the writer calls write(s) with the next len bytes
ChopWriterCall ==
    /\ cpc = "idle"
    /\ nwrites < MaxChopWrites
    /\ \E len \in 1..MaxWriteLen :
          /\ c_s' = [i \in 1..len |-> Len(written) + i]
          /\ written' = written \o [i \in 1..len |-> Len(written) + i]
    /\ nwrites' = nwrites + 1
    /\ cpc' = "w_load"
    /\ UNCHANGED <<cfgVars, auxVars, detVars, streamVars, c_tmp, running, thread, nstarts,
                   workerVars, listenerVars, readout, log>>

\* the reader calls read() (n = -1) or read(n)
ChopReaderCall ==
    /\ wpc[TheReader] = "idle"
    /\ \E n \in {-1} \cup ReadSizes :
          /\ w_n' = [w_n EXCEPT ![TheReader] = n]
          /\ r_req' = n
    /\ wpc' = [wpc EXCEPT ![TheReader] = "read"]
    /\ UNCHANGED <<cfgVars, detVars, streamVars, callerVars, w_chunk, w_tmp, w_prob,
                   listenerVars, histVars, paramVars, detHistVars, entry_buf, post_stop>>

\* a step of the read(); its first step sees the buffer as it is at entry
ChopReaderStep ==
    /\ ReadSteps(TheReader)
    /\ entry_buf' = IF wpc[TheReader] = "read" THEN buffer ELSE entry_buf
    /\ UNCHANGED <<cfgVars, detVars, callerVars, listenerVars, histVars, paramVars,
                   detHistVars, r_req, post_stop>>

NextChop ==
    \/ ChopWriterCall
    \/ WriterLoad
    \/ WriterStore
    \/ WriterSet
    \/ ChopReaderCall
    \/ ChopReaderStep
    \/ ReaderReturn

SpecChop == InitChop /\ [][NextChop]_vars

\* C12: a read() called with n = -1 never waits for a write, and returns the
\* whole of what the buffer held when it was entered, whatever chop_samples.
C12_ReadAllImmediately ==
    r_req = -1 =>
        /\ wpc[TheReader] \notin {"clear", "wait"}
        /\ wpc[TheReader] = "ret" => w_chunk[TheReader] = entry_buf

\* C13: the first step of a read() that finds more than chop_samples > 0
\* bytes in the buffer leaves exactly the last (length mod chop_samples) of
\* them, fewer than chop_samples, exact multiples included.
C13_ChopKeepsRemainder ==
    [][(/\ wpc[TheReader] = "read"
        /\ wpc'[TheReader] = "check"
        /\ 0 < chop_samples
        /\ chop_samples < Len(buffer))
       => (/\ Len(buffer') = Len(buffer) % chop_samples
           /\ buffer' = Drop(buffer, Len(buffer) - (Len(buffer) % chop_samples))
           /\ Len(buffer') < chop_samples)]_vars

(***************************************************************************)
(* Further properties of the TriggerDetector, under SpecDet.                *)
(***************************************************************************)
\* C14: an update returns True only on a probability above the threshold
\* 1 - sensitivity, whatever the state it is made in; so a stream without
\* such a probability never activates.
C14_TrueOnlyAboveThreshold ==
    ret = TRUE => chunk_activated(last_prob, sensitivity)

\* an activation on a probability just above the threshold, after a cooldown
C14_Witness ==
    /\ ret = TRUE
    /\ sensitivity = 50
    /\ last_prob = 51
    /\ last_gap > 0

\* C16: after an update that returned True, none of the next
\* floor(16384 / chunk_size) + trigger_level updates returns True.
C16_QuietAfterActivation ==
    last_gap = 0 \/ last_gap > QuietSpan(chunk_size, trigger_level)

\* a second activation as early as one can come, chunk_size dividing 16384
C16_Witness ==
    /\ ret = TRUE
    /\ trigger_level > 0
    /\ chunk_size = 2048
    /\ last_gap = QuietSpan(chunk_size, trigger_level) + 1

\* the last update reset the counter: it returned True, or its probability
\* was above the threshold and the incremented counter still negative
WasReset ==
    /\ last_prob >= 0
    /\ \/ ret = TRUE
       \/ chunk_activated(last_prob, sensitivity) /\ prev_activation + 1 < 0

\* C18 as stated: after a reset the counter is the negation of the integer
\* quotient of 16384 by chunk_size.
C18_AsStated ==
    WasReset => activation = -((8 * 2048) \div chunk_size)

\* C18: after a reset the counter is floor(-16384 / chunk_size), that is
\* minus the quotient of 16384 by chunk_size rounded up.
C18_CooldownValue ==
    WasReset => activation = -(((8 * 2048) + chunk_size - 1) \div chunk_size)

\* a reset with a chunk_size that does not divide 16384
C18_Witness ==
    /\ WasReset
    /\ ret = TRUE
    /\ (8 * 2048) % chunk_size # 0
    /\ chunk_size < 8 * 2048
    /\ activation = -(((8 * 2048) \div chunk_size) + 1)

\* C19: after every update the counter is between the reset value and
\* trigger_level; an update below the threshold takes a positive counter
\* down by one, not below 0, and leaves a counter of 0 as it is.
C19_CounterRange ==
    /\ CooldownReset(chunk_size) <= activation
    /\ activation <= trigger_level
    /\ (last_prob >= 0 /\ ~chunk_activated(last_prob, sensitivity)) =>
          /\ prev_activation > 0 => (activation = prev_activation - 1 /\ activation >= 0)
          /\ prev_activation = 0 => activation = 0

\* the counter has decayed to 0 and a further update below the threshold
\* has left it there
C19_Witness ==
    /\ last_prob >= 0
    /\ ~chunk_activated(last_prob, sensitivity)
    /\ prev_activation = 0
    /\ activation = 0
    /\ since_true > 0

(***************************************************************************)
(* The raw-audio tail of the Listener, under SpecListener.                  *)
(***************************************************************************)
\* C17: a call of update_vectors takes from the front of window_audio
\* exactly hop_samples samples for each frame the vectorizer produced,
\* counted before the cut to the matrix capacity, and leaves fewer than
\* window_samples + hop_samples samples.
C17_TailAccounting ==
    /\ Len(window_audio) = pre_len - Len(last_new) * hop_samples
    /\ window_audio = Drop(fed, Len(fed) - Len(window_audio))
    /\ Len(window_audio) < window_samples + hop_samples

\* a call that produced more frames than the matrix holds, some samples
\* left over
C17_Witness ==
    /\ Len(last_new) > n_features
    /\ Len(window_audio) = pre_len - Len(last_new) * hop_samples
    /\ Len(window_audio) > 0

(***************************************************************************)
(* stop() and the end of the worker loop, under SpecRunner.                 *)
(***************************************************************************)
\* C15: a stop() called while no worker of the runner is alive (never
\* started, already stopped, or ended at the end of the stream) changes
\* neither the runner nor the stream, and goes through no further step.
C15_StopIsNoOp ==
    [][(StopBegin /\ \A w \in Workers : ~Alive(w))
       => UNCHANGED <<running, thread, cpc, streamVars, c_s, written>>]_vars

\* C20: with a single start(), after stop() has cleared the flag the worker
\* begins at most one more stream.read, makes at most one more on_prediction
\* and at most one more on_activation call; once stop() has returned no
\* worker is alive, so none of these happens.
C20_ShutdownBound ==
    nstarts = 1 =>
        /\ post_stop.read <= 1
        /\ post_stop.on_prediction <= 1
        /\ post_stop.on_activation <= 1
        /\ (cpc = "idle" /\ thread = 0) => \A w \in Workers : ~Alive(w)

\* stop() is about to return from join(): with the flag cleared the worker
\* went through one whole iteration, activation included, and ended
C20_Witness ==
    /\ nstarts = 1
    /\ cpc = "join"
    /\ ~running
    /\ post_stop = [read |-> 1, on_prediction |-> 1, on_activation |-> 1]
    /\ wpc[thread] = "dead"

====
